---- MODULE Spec2Model ----
(***************************************************************************)
(* ERC reference browser: the compatibility-rule lookup (getRule), the     *)
(* Solidity pattern scanner (scanSolidity) and the AI recommendation       *)
(* proxy (the serve handler).  The three components share no state; each   *)
(* has its own specification over the module's variables.                  *)
(***************************************************************************)
EXTENDS Integers, Sequences, FiniteSets, TLC

VARIABLES
  argA, argB, ret,         \* getRule: the arguments and the value of the last call
  code, hits, scanned,     \* scanSolidity: the text and the value of the last call
  lastIndex,               \* lastIndex of each regex of ERC_PATTERNS
  healthTable, safeSet,    \* the contents of ercHealthDB and SAFE_ERCS
  ref                      \* an earlier call of scanSolidity: its text and value

compatVars == <<argA, argB, ret>>

scanVars == <<code, hits, scanned, lastIndex, healthTable, safeSet, ref>>

(***************************************************************************)
(* Compatibility rules (CompatibilityMatrix.tsx)                           *)
(***************************************************************************)

\* JavaScript's undefined, the value of a property an object does not have.
Undefined == [undefined |-> TRUE]

CompatResult == {"required", "compatible", "caution", "incompatible", "n/a"}

\* The rule table, keyed by "<a>:<b>".  The notes are the source's, with the
\* em dash written "--".
rules ==
  "20:2612" :> [result |-> "required", note |-> "ERC-2612 is a direct extension of ERC-20 (adds permit for gasless approvals). Always use together."] @@
  "721:2981" :> [result |-> "required", note |-> "ERC-2981 is the standard royalty extension for ERC-721 NFTs."] @@
  "1155:2981" :> [result |-> "required", note |-> "ERC-2981 is the standard royalty extension for ERC-1155 multi-tokens."] @@
  "4337:1271" :> [result |-> "required", note |-> "Account Abstraction smart wallets must implement ERC-1271 for off-chain signature validation."] @@
  "721:165" :> [result |-> "required", note |-> "ERC-721 mandates ERC-165 for interface detection -- they are inseparable."] @@
  "1155:165" :> [result |-> "required", note |-> "ERC-1155 mandates ERC-165 for interface detection."] @@
  "20:4626" :> [result |-> "required", note |-> "ERC-4626 tokenized vaults wrap an ERC-20 asset and issue ERC-20 shares."] @@
  "721:6551" :> [result |-> "required", note |-> "ERC-6551 Token Bound Accounts are always anchored to an ERC-721 token."] @@
  "721:4907" :> [result |-> "compatible", note |-> "ERC-4907 adds a user/rental role on top of ERC-721. Very common pairing."] @@
  "721:5484" :> [result |-> "compatible", note |-> "ERC-5484 restricts transfer on ERC-721 to create soulbound tokens."] @@
  "721:5192" :> [result |-> "compatible", note |-> "ERC-5192 adds a minimal locked flag to ERC-721 for simpler soulbound use."] @@
  "721:5007" :> [result |-> "compatible", note |-> "ERC-5007 adds time-based validity windows to ERC-721 tokens."] @@
  "4337:6900" :> [result |-> "compatible", note |-> "ERC-6900 is the modular plugin specification built on top of ERC-4337."] @@
  "4337:7579" :> [result |-> "compatible", note |-> "ERC-7579 is a leaner alternative module spec for ERC-4337 accounts."] @@
  "20:1363" :> [result |-> "compatible", note |-> "ERC-1363 extends ERC-20 with transferAndCall hooks for payable token flows."] @@
  "20:777" :> [result |-> "compatible", note |-> "ERC-777 is a superset of ERC-20 with hooks. Mostly superseded by ERC-1363."] @@
  "721:3525" :> [result |-> "compatible", note |-> "ERC-3525 semi-fungible tokens extend ERC-721 identity with a value field."] @@
  "5484:4907" :> [result |-> "caution", note |-> "Soulbound (non-transferable) conflicts with rental mechanics -- rental requires transfer or user delegation."] @@
  "5192:4907" :> [result |-> "caution", note |-> "Locked tokens (5192) cannot be transferred, which may block rental assignment."] @@
  "777:4626" :> [result |-> "caution", note |-> "ERC-777 hooks can trigger reentrancy in vault contexts. Prefer plain ERC-20."] @@
  "6900:7579" :> [result |-> "caution", note |-> "ERC-6900 and ERC-7579 are competing module standards -- implement only one."] @@
  "5484:5192" :> [result |-> "incompatible", note |-> "Both implement soulbound locking mechanisms -- redundant and likely conflicting."] @@
  "20:721" :> [result |-> "incompatible", note |-> "Fundamentally different token models. Use ERC-1155 if you need both fungible and non-fungible in one contract."]

\* rules[key] of a JavaScript object: the own property, or undefined.
RuleAt(key) == IF key \in DOMAIN rules THEN rules[key] ELSE Undefined

\* x ?? y
Nullish(x, y) == IF x = Undefined THEN y ELSE x

\* A key built without the separator: `${a}${b}`.
KeyNoSeparator(a, b) == a \o b

\* The template literal `${a}:${b}`.
Key(a, b) == a \o ":" \o b

DefaultRule ==
  [result |-> "n/a", note |-> "No specific compatibility data available for this pair."]

\* The reversed lookup forgotten: rules[`${a}:${b}`] ?? default.
getRuleGivenOrderOnly(a, b) == Nullish(RuleAt(Key(a, b)), DefaultRule)

getRule(a, b) ==
  Nullish(RuleAt(Key(a, b)), Nullish(RuleAt(Key(b, a)), DefaultRule))

MATRIX_ERCS ==
  <<"20", "721", "1155", "4626", "4337", "2981", "6551", "4907", "5484", "1271",
    "165", "777", "1363", "6900", "7579", "5192", "5007", "3525">>

\* The identifiers getRule is called with: the matrix's, one that occurs only
\* in the rule table ("2612"), and strings that are no standard of the table.
Identifiers ==
  {MATRIX_ERCS[i] : i \in DOMAIN MATRIX_ERCS} \cup {"2612", "9999", "", "20:2612"}

NoCall == [called |-> FALSE]

CompatIdle ==
  /\ argA = ""
  /\ argB = ""
  /\ ret = NoCall

\* One call getRule(a, b).
Lookup(a, b) ==
  /\ argA' = a
  /\ argB' = b
  /\ ret' = getRule(a, b)

NextLookup == \E a \in Identifiers, b \in Identifiers : Lookup(a, b)

\* C1: getRule(a, b) and getRule(b, a) return the same classification and the
\* same note, for every pair of identifiers, registered or not.
C1_Symmetric ==
  ret # NoCall =>
    /\ ret.result = getRule(argB, argA).result
    /\ ret.note = getRule(argB, argA).note

\* A pair registered in the reversed order only has been looked up.
C1_Witness ==
  /\ ret # NoCall
  /\ Key(argA, argB) \notin DOMAIN rules
  /\ Key(argB, argA) \in DOMAIN rules

\* C2: getRule returns the rule registered under the pair as given, else the
\* rule registered under the reversed pair, else the default "n/a" result; it
\* always returns a rule.  ("20","721") and ("721","20") are 'incompatible'
\* with the registered note; the unregistered ("2612","1155") is the default.
C2_LookupOrder ==
  ret # NoCall =>
    /\ ret.result \in CompatResult
    /\ Key(argA, argB) \in DOMAIN rules => ret = rules[Key(argA, argB)]
    /\ (Key(argA, argB) \notin DOMAIN rules /\ Key(argB, argA) \in DOMAIN rules)
         => ret = rules[Key(argB, argA)]
    /\ (Key(argA, argB) \notin DOMAIN rules /\ Key(argB, argA) \notin DOMAIN rules)
         => /\ ret.result = "n/a"
            /\ ret.note = "No specific compatibility data available for this pair."
    /\ ({argA, argB} = {"20", "721"}) =>
         /\ ret.result = "incompatible"
         /\ ret.note = "Fundamentally different token models. Use ERC-1155 if you need both fungible and non-fungible in one contract."
    /\ (argA = "2612" /\ argB = "1155") => ret = DefaultRule

\* The reversed scenario pair ("721","20") has been looked up.
C2_Witness ==
  /\ argA = "721"
  /\ argB = "20"
  /\ ret.result = "incompatible"


(***************************************************************************)
(* Pattern scanner (DeprecatedERCScanner.tsx)                              *)
(*                                                                         *)
(* A text is a sequence of one-character strings; "\n" separates lines.    *)
(***************************************************************************)

\* JavaScript's null.
Null == [null |-> TRUE]

\* The health table.  Each record keeps the fields the scanner and the views
\* read; the prose fields reason and sourceNote are left out.  A record
\* without a replacement has replacement undefined.
ercHealthDB ==
  "777" :> [number |-> "777", health |-> "not-recommended", officialStatus |-> "Final",
           riskLevel |-> "critical", replacement |-> [ercNumber |-> "20", label |-> "ERC-20 + ERC-1363"],
           eipUrl |-> "https://eips.ethereum.org/EIPS/eip-777"] @@
  "1820" :> [number |-> "1820", health |-> "not-recommended", officialStatus |-> "Final",
           riskLevel |-> "high", replacement |-> [ercNumber |-> "165", label |-> "ERC-165"],
           eipUrl |-> "https://eips.ethereum.org/EIPS/eip-1820"] @@
  "223" :> [number |-> "223", health |-> "stagnant", officialStatus |-> "Stagnant",
           riskLevel |-> "high", replacement |-> [ercNumber |-> "1363", label |-> "ERC-1363"],
           eipUrl |-> "https://eips.ethereum.org/EIPS/eip-223"] @@
  "827" :> [number |-> "827", health |-> "stagnant", officialStatus |-> "Stagnant",
           riskLevel |-> "critical", replacement |-> [ercNumber |-> "1363", label |-> "ERC-1363"],
           eipUrl |-> "https://eips.ethereum.org/EIPS/eip-827"] @@
  "884" :> [number |-> "884", health |-> "stagnant", officialStatus |-> "Stagnant",
           riskLevel |-> "medium", replacement |-> [ercNumber |-> "3643", label |-> "ERC-3643 (T-REX)"],
           eipUrl |-> "https://eips.ethereum.org/EIPS/eip-884"] @@
  "948" :> [number |-> "948", health |-> "stagnant", officialStatus |-> "Stagnant",
           riskLevel |-> "medium", replacement |-> [ercNumber |-> "4337", label |-> "ERC-4337 Paymasters"],
           eipUrl |-> "https://eips.ethereum.org/EIPS/eip-948"] @@
  "1400" :> [number |-> "1400", health |-> "stagnant", officialStatus |-> "Stagnant",
           riskLevel |-> "medium", replacement |-> [ercNumber |-> "3643", label |-> "ERC-3643 (T-REX)"],
           eipUrl |-> "https://eips.ethereum.org/EIPS/eip-1400"] @@
  "2612" :> [number |-> "2612", health |-> "safe", officialStatus |-> "Final",
           riskLevel |-> "low", replacement |-> Undefined,
           eipUrl |-> "https://eips.ethereum.org/EIPS/eip-2612"]

\* The known-safe list without the security-token standard 3643.
SAFE_ERCSWithout3643 ==
  <<"20", "721", "1155", "2981", "4626", "4337", "6551", "4907", "5484", "5192", "1271", "165", "712", "1363", "2612", "7579", "6900", "4906", "7231">>

\* The standards known to be safe.
SAFE_ERCS ==
  <<"20", "721", "1155", "2981", "4626", "4337", "6551", "4907", "5484", "5192", "1271", "165", "712", "1363", "3643", "2612", "7579", "6900", "4906", "7231">>

\* A regular expression is a sequence of alternatives, an alternative a
\* sequence of atoms, an atom one character or "-?", the optional dash.
IsOptional(atom) == atom = "-?"

AtomChar(atom) == IF atom = "-?" THEN "-" ELSE atom

\* /ERC<n>|IERC<n>|erc-?<n>|eip-?<n>/
WithDashed(n) ==
  << <<"E", "R", "C">> \o n,
     <<"I", "E", "R", "C">> \o n,
     <<"e", "r", "c", "-?">> \o n,
     <<"e", "i", "p", "-?">> \o n >>

\* /ERC<n>|IERC<n>/
Plain(n) ==
  << <<"E", "R", "C">> \o n,
     <<"I", "E", "R", "C">> \o n >>

ERC_PATTERNS == <<
  [pattern |-> WithDashed(<<"7", "7", "7">>), ercNumber |-> "777", label |-> "ERC-777"],
  [pattern |-> WithDashed(<<"1", "8", "2", "0">>), ercNumber |-> "1820", label |-> "ERC-1820"],
  [pattern |-> WithDashed(<<"8", "2", "7">>), ercNumber |-> "827", label |-> "ERC-827"],
  [pattern |-> WithDashed(<<"2", "2", "3">>), ercNumber |-> "223", label |-> "ERC-223"],
  [pattern |-> WithDashed(<<"8", "8", "4">>), ercNumber |-> "884", label |-> "ERC-884"],
  [pattern |-> WithDashed(<<"9", "4", "8">>), ercNumber |-> "948", label |-> "ERC-948"],
  [pattern |-> WithDashed(<<"1", "4", "0", "0">>), ercNumber |-> "1400", label |-> "ERC-1400"],
  [pattern |-> Plain(<<"2", "0">>), ercNumber |-> "20", label |-> "ERC-20"],
  [pattern |-> Plain(<<"7", "2", "1">>), ercNumber |-> "721", label |-> "ERC-721"],
  [pattern |-> Plain(<<"1", "1", "5", "5">>), ercNumber |-> "1155", label |-> "ERC-1155"],
  [pattern |-> Plain(<<"4", "6", "2", "6">>), ercNumber |-> "4626", label |-> "ERC-4626"],
  [pattern |-> Plain(<<"1", "3", "6", "3">>), ercNumber |-> "1363", label |-> "ERC-1363"],
  [pattern |-> Plain(<<"2", "6", "1", "2">>), ercNumber |-> "2612", label |-> "ERC-2612"],
  [pattern |-> Plain(<<"1", "6", "5">>), ercNumber |-> "165", label |-> "ERC-165"],
  [pattern |-> Plain(<<"2", "9", "8", "1">>), ercNumber |-> "2981", label |-> "ERC-2981"],
  [pattern |-> Plain(<<"4", "9", "0", "7">>), ercNumber |-> "4907", label |-> "ERC-4907"]
>>

UpperToLower ==
  "A" :> "a" @@ "B" :> "b" @@ "C" :> "c" @@ "D" :> "d" @@ "E" :> "e" @@ "F" :> "f" @@ "G" :> "g" @@ "H" :> "h" @@ "I" :> "i" @@ "J" :> "j" @@ "K" :> "k" @@ "L" :> "l" @@ "M" :> "m" @@ "N" :> "n" @@ "O" :> "o" @@ "P" :> "p" @@ "Q" :> "q" @@ "R" :> "r" @@ "S" :> "s" @@ "T" :> "t" @@ "U" :> "u" @@ "V" :> "v" @@ "W" :> "w" @@ "X" :> "x" @@ "Y" :> "y" @@ "Z" :> "z"

\* The i flag: characters are compared after case folding (ASCII letters).
UpperCase == DOMAIN UpperToLower

\* The regex flags without i: characters are compared as they are.
CanonicalizeCaseSensitive(c) == c

Canonicalize(c) == IF c \in UpperCase THEN UpperToLower[c] ELSE c

\* The position after a match of atoms k.. of alt at position i of line, or
\* -1.  An optional atom is tried present first, then absent.
RECURSIVE MatchAtoms(_, _, _, _)
MatchAtoms(alt, k, line, i) ==
  IF k > Len(alt) THEN i
  ELSE IF i <= Len(line) /\ Canonicalize(line[i]) = Canonicalize(AtomChar(alt[k]))
  THEN IF IsOptional(alt[k])
       THEN LET taken == MatchAtoms(alt, k + 1, line, i + 1)
            IN IF taken # -1 THEN taken ELSE MatchAtoms(alt, k + 1, line, i)
       ELSE MatchAtoms(alt, k + 1, line, i + 1)
  ELSE IF IsOptional(alt[k]) THEN MatchAtoms(alt, k + 1, line, i)
  ELSE -1

\* The alternatives are tried left to right; the first that matches wins.
RECURSIVE MatchAlternatives(_, _, _, _)
MatchAlternatives(pattern, j, line, i) ==
  IF j > Len(pattern) THEN -1
  ELSE LET e == MatchAtoms(pattern[j], 1, line, i)
       IN IF e # -1 THEN e ELSE MatchAlternatives(pattern, j + 1, line, i)

\* The leftmost position of lo..hi at which pattern matches, or 0.  The range
\* is searched by halves, the left half first: left is the result for the
\* left half, lo..hi the right half.
RECURSIVE FirstMatch(_, _, _, _), FirstOf(_, _, _, _, _)
FirstOf(left, pattern, line, lo, hi) ==
  IF left # 0 THEN left ELSE FirstMatch(pattern, line, lo, hi)

FirstMatch(pattern, line, lo, hi) ==
  IF lo > hi THEN 0
  ELSE IF lo = hi
  THEN IF MatchAlternatives(pattern, 1, line, lo) # -1 THEN lo ELSE 0
  ELSE FirstOf(FirstMatch(pattern, line, lo, (lo + hi) \div 2),
               pattern, line, (lo + hi) \div 2 + 1, hi)

\* The match that starts at first: <<start, end>>, or <<-1, -1>> for 0.
MatchAt(pattern, line, first) ==
  IF first = 0 THEN <<-1, -1>>
  ELSE <<first, MatchAlternatives(pattern, 1, line, first)>>

\* RegExp exec from position i: <<start, end>> of the leftmost match at or
\* after i, or <<-1, -1>>.
Search(pattern, line, i) ==
  MatchAt(pattern, line, FirstMatch(pattern, line, i, Len(line)))

\* The length of line.match(regex) for a g regex: the successive
\* non-overlapping matches from position i on (0 for null).
RECURSIVE CountMatches(_, _, _)
CountMatches(pattern, line, i) ==
  LET m == Search(pattern, line, i)
  IN IF m[2] = -1 THEN 0 ELSE 1 + CountMatches(pattern, line, m[2])

\* The shared g regex used through pattern.test(line): the search starts at
\* the regex's lastIndex (0-based) and leaves the end of the match there.
MatchLineSharedRegex(pattern, line, li) ==
  LET m == Search(pattern, line, li + 1)
  IN IF m[2] = -1 THEN [count |-> 0, lastIndex |-> 0]
     ELSE [count |-> 1, lastIndex |-> m[2] - 1]

\* The matches counted as the pieces line.split(regex) leaves.
MatchLineCountingPieces(pattern, line, li) ==
  [count |-> CountMatches(pattern, line, 1) + 1, lastIndex |-> li]

\* line.match(new RegExp(pattern.source, "gi")): a fresh regex per line, so
\* the search starts at 0 and the table's regex (lastIndex li) is not touched.
MatchLine(pattern, line, li) ==
  [count |-> CountMatches(pattern, line, 1), lastIndex |-> li]

\* code.split("\n"): the pieces between successive separators, from position
\* i on; a text without a separator is one piece.
RECURSIVE SplitFrom(_, _)
SplitFrom(text, i) ==
  LET seps == {j \in i..Len(text) : text[j] = "\n"}
  IN IF seps = {} THEN <<SubSeq(text, i, Len(text))>>
     ELSE LET nl == CHOOSE j \in seps : \A k \in seps : j <= k
          IN <<SubSeq(text, i, nl - 1)>> \o SplitFrom(text, nl + 1)

Split(text) == SplitFrom(text, 1)


\* lines.forEach of one pattern, over the first n lines: the total number of
\* matches and the line numbers with a match.  Sequences are 1-based, so the
\* source's idx + 1 is the element's index here.  li is the lastIndex of the
\* table's regex before the loop.
RECURSIVE ScanLines(_, _, _, _)
ScanLines(pattern, lines, n, li) ==
  IF n = 0 THEN [totalCount |-> 0, matchLines |-> <<>>, lastIndex |-> li]
  ELSE LET sofar == ScanLines(pattern, lines, n - 1, li)
           m   == MatchLine(pattern, lines[n], sofar.lastIndex)
       IN IF m.count > 0
          THEN [totalCount |-> sofar.totalCount + m.count,
                matchLines |-> Append(sofar.matchLines, n),
                lastIndex  |-> m.lastIndex]
          ELSE [sofar EXCEPT !.lastIndex = m.lastIndex]

\* hits.has(ercNumber)
Has(hs, n) == \E i \in DOMAIN hs : hs[i].ercNumber = n

\* matchLines.slice(0, 5) without the cap.
FirstLinesUncapped(matchLines) == matchLines

\* matchLines.slice(0, 5)
FirstLines(matchLines) ==
  SubSeq(matchLines, 1, IF Len(matchLines) < 5 THEN Len(matchLines) ELSE 5)

\* The health table read by the hit's label.
HealthOfByLabel(n) ==
  IF ("ERC-" \o n) \in DOMAIN healthTable THEN healthTable["ERC-" \o n] ELSE Null

\* ercHealthDB[ercNumber] ?? null
HealthOf(n) == IF n \in DOMAIN healthTable THEN healthTable[n] ELSE Null

\* SAFE_ERCS.includes(ercNumber)
Includes(s, x) == \E i \in DOMAIN s : s[i] = x

\* The loop over the first p entries of ERC_PATTERNS.  The Map hits keeps
\* insertion order; the field hits is its sequence of values.  li is the
\* lastIndex of each regex of the table before the loop; each entry has its
\* own regex.
RECURSIVE ScanPatterns(_, _, _)
ScanPatterns(lines, p, li) ==
  IF p = 0 THEN [hits |-> <<>>, lastIndex |-> li]
  ELSE
    LET before == ScanPatterns(lines, p - 1, li)
        pat == ERC_PATTERNS[p]
        r   == ScanLines(pat.pattern, lines, Len(lines), li[p])
        health == HealthOf(pat.ercNumber)
        isSafe == Includes(safeSet, pat.ercNumber) /\ health = Null
        hit == [ercNumber |-> pat.ercNumber, label |-> pat.label,
                count |-> r.totalCount, lines |-> FirstLines(r.matchLines),
                health |-> health, isSafe |-> isSafe]
    IN [hits |-> IF r.totalCount > 0 /\ ~Has(before.hits, pat.ercNumber)
                 THEN Append(before.hits, hit) ELSE before.hits,
        lastIndex |-> [before.lastIndex EXCEPT ![p] = r.lastIndex]]

RiskLevels == <<"critical", "high", "medium", "low">>

order == "critical" :> 0 @@ "high" :> 1 @@ "medium" :> 2 @@ "low" :> 3

\* Whether a.health?.riskLevel is truthy: a health record with a non-empty
\* risk level.
HasRisk(h) == h.health # Null /\ h.health.riskLevel # ""

\* A comparator that forgets the severity order among classified hits.
compareClassifiedFirstOnly(a, b) ==
  IF HasRisk(a) /\ HasRisk(b) THEN 0
  ELSE IF HasRisk(a) /\ ~HasRisk(b) THEN -1
  ELSE IF ~HasRisk(a) /\ HasRisk(b) THEN 1
  ELSE 0

\* The sort's comparator.
compare(a, b) ==
  IF HasRisk(a) /\ HasRisk(b)
  THEN order[a.health.riskLevel] - order[b.health.riskLevel]
  ELSE IF HasRisk(a) /\ ~HasRisk(b) THEN -1
  ELSE IF ~HasRisk(a) /\ HasRisk(b) THEN 1
  ELSE 0

\* Array.prototype.sort is stable: x goes after the last element that does
\* not compare greater than it.
RECURSIVE InsertHit(_, _)
InsertHit(sorted, x) ==
  IF sorted = <<>> THEN <<x>>
  ELSE IF compare(sorted[Len(sorted)], x) > 0
       THEN Append(InsertHit(SubSeq(sorted, 1, Len(sorted) - 1), x), sorted[Len(sorted)])
       ELSE Append(sorted, x)

RECURSIVE SortHits(_, _)
SortHits(hs, k) ==
  IF k = 0 THEN <<>> ELSE InsertHit(SortHits(hs, k - 1), hs[k])

\* scanSolidity(code): the sorted hits, and the lastIndex of the table's
\* regexes after the call.
scanSolidity(text) ==
  LET r == ScanPatterns(Split(text), Len(ERC_PATTERNS), lastIndex)
  IN [hits |-> SortHits(r.hits, Len(r.hits)), lastIndex |-> r.lastIndex]

(***************************************************************************)
(* The texts scanned: up to MaxLines lines, each one of two lines that     *)
(* between them mention standards of every risk level and standards        *)
(* without a health record, in several spellings.                          *)
(***************************************************************************)

LineHooks ==
  <<"E", "R", "C", "2", "0", " ", "e", "i", "p", "1", "8", "2", "0", " ", "E", "R", "C", "8", "2", "7", "/", "i", "e", "r", "c", "-", "8", "2", "7">>

LineMixed ==
  <<"E", "r", "c", "7", "2", "1", " ", "e", "r", "c", "8", "8", "4", " ", "E", "R", "C", "2", "6", "1", "2">>

LineChoices == {LineHooks, LineMixed}

MaxLines == 6

\* lines.join("\n")
RECURSIVE Join(_)
Join(ls) ==
  IF ls = <<>> THEN <<>>
  ELSE IF Len(ls) = 1 THEN ls[1]
  ELSE ls[1] \o <<"\n">> \o Join(Tail(ls))

Texts == {Join(ls) : ls \in UNION {[1..k -> LineChoices] : k \in 0..MaxLines}}

\* The texts of a sequence of calls: the empty text, a text without a match,
\* and short texts of one to three lines.
CallTexts ==
  { <<>>,
    <<"u", "i", "n", "t", " ", "x", ";">>,
    <<"E", "R", "C", "2", "0">>,
    <<"e", "r", "c", "-", "7", "7", "7", " ", "I", "E", "R", "C", "7", "7", "7">>,
    <<"e", "i", "p", "1", "8", "2", "0", "\n", "E", "R", "C", "2", "0">>,
    <<"I", "E", "R", "C", "2", "6", "1", "2">>,
    <<"E", "R", "C", "2", "0", "\n", "\n", "E", "R", "C", "2", "0">> }

\* No earlier call is remembered.
NoRef == [set |-> FALSE]

InitTables ==
  /\ lastIndex = [p \in DOMAIN ERC_PATTERNS |-> 0]
  /\ healthTable = ercHealthDB
  /\ safeSet = SAFE_ERCS

\* One call scanSolidity(t).
ScanCall(t) ==
  LET r == scanSolidity(t)
  IN
  /\ code' = t
  /\ hits' = r.hits
  /\ lastIndex' = r.lastIndex
  /\ scanned' = TRUE
  /\ UNCHANGED <<healthTable, safeSet>>

\* The function applied once to a text drawn at the start.
InitScanText ==
  /\ code \in Texts
  /\ hits = <<>>
  /\ scanned = FALSE
  /\ ref = NoRef
  /\ InitTables

ScanOnce == ~scanned /\ ScanCall(code) /\ UNCHANGED ref

\* A sequence of calls on any texts; ref remembers one earlier call and its
\* result.
ScanIdle ==
  /\ code = <<>>
  /\ hits = <<>>
  /\ scanned = FALSE
  /\ ref = NoRef
  /\ InitTables

\* The call just made is remembered, with its result.
Remember == ref' = [set |-> TRUE, code |-> code', hits |-> hits', age |-> 0]

\* The remembered call stays; age counts the calls made since, up to 2.
Keep ==
  /\ ref.set
  /\ ref' = [ref EXCEPT !.age = IF ref.age < 2 THEN ref.age + 1 ELSE 2]

ScanAny ==
  \E t \in CallTexts :
    /\ ScanCall(t)
    /\ \/ Remember
       \/ Keep
       \/ ~ref.set /\ UNCHANGED ref

\* The position of a standard in ERC_PATTERNS: the order in which the loop
\* meets the standards.
EncounterIndex(n) == CHOOSE p \in DOMAIN ERC_PATTERNS : ERC_PATTERNS[p].ercNumber = n

SeverityRank(level) == CHOOSE k \in DOMAIN RiskLevels : RiskLevels[k] = level

\* C3: in the list scanSolidity returns, every hit with a health record comes
\* before every hit without one; among the hits with a health record the risk
\* levels appear in the order critical, high, medium, low; the hits without a
\* health record keep their encounter order.
C3_SortedBySeverity ==
  scanned =>
    \A i \in DOMAIN hits : \A j \in DOMAIN hits :
      i < j =>
        /\ hits[j].health # Null => hits[i].health # Null
        /\ (hits[i].health # Null /\ hits[j].health # Null) =>
             SeverityRank(hits[i].health.riskLevel) <= SeverityRank(hits[j].health.riskLevel)
        /\ (hits[i].health = Null /\ hits[j].health = Null) =>
             EncounterIndex(hits[i].ercNumber) < EncounterIndex(hits[j].ercNumber)

\* A result with all four risk levels and two hits without a health record.
C3_Witness ==
  /\ scanned
  /\ {hits[i].health.riskLevel : i \in {k \in DOMAIN hits : hits[k].health # Null}}
       = {"critical", "high", "medium", "low"}
  /\ Cardinality({i \in DOMAIN hits : hits[i].health = Null}) = 2

\* The number of matches of a pattern on each of the first n lines.
RECURSIVE CountsPerLine(_, _, _)
CountsPerLine(pattern, lines, n) ==
  IF n = 0 THEN <<>>
  ELSE Append(CountsPerLine(pattern, lines, n - 1), CountMatches(pattern, lines[n], 1))

RECURSIVE SumSeq(_, _)
SumSeq(q, n) == IF n = 0 THEN 0 ELSE SumSeq(q, n - 1) + q[n]

\* C4: scanSolidity returns exactly one hit per standard whose pattern matches
\* at least once; the hit's count is the total number of matches over all
\* lines, its lines are the 1-indexed numbers of the first at most 5 lines
\* with a match, in order, and its health is the health-table record of the
\* standard, or null when the table has none.
C4_OneHitPerMatchedStandard ==
  scanned =>
    LET lines == Split(code)
    IN /\ \A i \in DOMAIN hits : \A j \in DOMAIN hits :
            hits[i].ercNumber = hits[j].ercNumber => i = j
       /\ \A i \in DOMAIN hits :
            \E p \in DOMAIN ERC_PATTERNS : ERC_PATTERNS[p].ercNumber = hits[i].ercNumber
       /\ \A p \in DOMAIN ERC_PATTERNS :
            LET counts  == CountsPerLine(ERC_PATTERNS[p].pattern, lines, Len(lines))
                matched == {l \in DOMAIN counts : counts[l] > 0}
                mine    == {i \in DOMAIN hits : hits[i].ercNumber = ERC_PATTERNS[p].ercNumber}
            IN /\ (matched # {}) <=> (mine # {})
               /\ \A i \in mine :
                    /\ hits[i].count = SumSeq(counts, Len(counts))
                    /\ Len(hits[i].lines) =
                         (IF Cardinality(matched) < 5 THEN Cardinality(matched) ELSE 5)
                    /\ \A k \in DOMAIN hits[i].lines :
                         /\ hits[i].lines[k] \in matched
                         /\ Cardinality({l \in matched : l < hits[i].lines[k]}) = k - 1
                    /\ hits[i].health =
                         (IF hits[i].ercNumber \in DOMAIN ercHealthDB
                          THEN ercHealthDB[hits[i].ercNumber] ELSE Null)

\* A hit whose pattern matches on more than 5 lines, more than once a line.
C4_Witness ==
  /\ scanned
  /\ \E i \in DOMAIN hits :
       /\ Len(hits[i].lines) = 5
       /\ hits[i].count > 10

\* C5: scanSolidity is a pure function of the text: in any sequence of calls,
\* a text scanned again gives the result it gave before, whatever was scanned
\* in between, and no call changes the pattern table's regexes, the health
\* table or the known-safe list.
C5_Deterministic ==
  /\ (ref.set /\ ref.code = code) => hits = ref.hits
  /\ lastIndex = [p \in DOMAIN ERC_PATTERNS |-> 0]
  /\ healthTable = ercHealthDB
  /\ safeSet = SAFE_ERCS

\* A text with hits scanned again after at least one other call.
C5_Witness ==
  /\ ref.set
  /\ ref.age = 2
  /\ ref.code = code
  /\ Len(hits) > 1

(***************************************************************************)
(* Texts that name a standard: each standard of the pattern table under    *)
(* each spelling of its name, in every mix of upper and lower case, alone  *)
(* and inside other text; and texts that name none.                        *)
(***************************************************************************)

\* The characters of each standard's number.
DigitsOf ==
  "777" :> <<"7", "7", "7">> @@
  "1820" :> <<"1", "8", "2", "0">> @@
  "827" :> <<"8", "2", "7">> @@
  "223" :> <<"2", "2", "3">> @@
  "884" :> <<"8", "8", "4">> @@
  "948" :> <<"9", "4", "8">> @@
  "1400" :> <<"1", "4", "0", "0">> @@
  "20" :> <<"2", "0">> @@
  "721" :> <<"7", "2", "1">> @@
  "1155" :> <<"1", "1", "5", "5">> @@
  "4626" :> <<"4", "6", "2", "6">> @@
  "1363" :> <<"1", "3", "6", "3">> @@
  "2612" :> <<"2", "6", "1", "2">> @@
  "165" :> <<"1", "6", "5">> @@
  "2981" :> <<"2", "9", "8", "1">> @@
  "4907" :> <<"4", "9", "0", "7">>

\* ERC<n>, IERC<n>, erc-<n>, eip-<n>
Spellings ==
  << <<"e", "r", "c">>, <<"i", "e", "r", "c">>,
     <<"e", "r", "c", "-">>, <<"e", "i", "p", "-">> >>

LowerOf(c) == IF c \in DOMAIN UpperToLower THEN UpperToLower[c] ELSE c

UpperOf(c) ==
  IF \E u \in DOMAIN UpperToLower : UpperToLower[u] = c
  THEN CHOOSE u \in DOMAIN UpperToLower : UpperToLower[u] = c
  ELSE c

\* The word with the letters at the positions ups in upper case.
Cased(word, ups) ==
  [k \in 1..Len(word) |-> IF k \in ups THEN UpperOf(word[k]) ELSE word[k]]

Letters(word) == {k \in 1..Len(word) : UpperOf(word[k]) # word[k]}

Surroundings == { [before |-> <<>>, after |-> <<>>],
                  [before |-> <<"i", "s", " ">>, after |-> <<"(", "x", ")">>] }

SpelledTexts(v) ==
  { s.before \o Cased(Spellings[v], ups) \o DigitsOf[ERC_PATTERNS[p].ercNumber] \o s.after :
      p \in DOMAIN ERC_PATTERNS, ups \in SUBSET Letters(Spellings[v]), s \in Surroundings }

NameTexts == UNION { SpelledTexts(v) : v \in DOMAIN Spellings }

\* Texts in which no pattern matches.
OtherTexts ==
  { <<>>,
    <<"u", "i", "n", "t", " ", "x", ";">>,
    <<"E", "R", "C", " ", "2", "0">>,
    <<"e", "r", "c", "_", "7", "7", "7">>,
    <<"I", "E", "R", "C">>,
    <<"R", "C", "7", "7", "7", " ", "E", "R", "C", "7", "7">>,
    <<"c", "o", "n", "t", "r", "a", "c", "t", " ", "T", "o", "k", "e", "n", " ", "{", "}", "\n", "\n", "/", "/", " ", "e", "i", "p", " ", "2", "2", "3">>,
    <<"E", "\n", "R", "C", "2", "0">>,
    <<"e", "r", "c", "-", "2", "0", " ", "e", "i", "p", "-", "7", "2", "1">>,
    <<"e", "i", "p", "2", "6", "1", "2">>,
    <<"E", "R", "C", "-", "1", "1", "5", "5">> }

ImportLine ==
  <<"i", "m", "p", "o", "r", "t", " ", "\"", ".", ".", ".", "E", "R", "C", "7", "7", "7", "/", "E", "R", "C", "7", "7", "7", ".", "s", "o", "l", "\"", ";">>

InitNameText ==
  /\ code \in NameTexts \cup OtherTexts \cup {ImportLine}
  /\ hits = <<>>
  /\ scanned = FALSE
  /\ ref = NoRef
  /\ InitTables

\* The text holds the word, whatever the case of its letters.
ContainsNoCase(text, word) ==
  \E i \in 1..(Len(text) - Len(word) + 1) :
    \A k \in 1..Len(word) : LowerOf(text[i + k - 1]) = LowerOf(word[k])

HitFor(n) == \E i \in DOMAIN hits : hits[i].ercNumber = n

\* C14: for every standard of the pattern table, a text that contains its
\* canonical name ERC<number>, in any mix of upper and lower case, produces a
\* hit for that standard.
C14_CanonicalNameAnyCase ==
  scanned =>
    \A p \in DOMAIN ERC_PATTERNS :
      ContainsNoCase(code, Spellings[1] \o DigitsOf[ERC_PATTERNS[p].ercNumber])
        => HitFor(ERC_PATTERNS[p].ercNumber)

\* A scanned text naming a standard whose pattern has no dashed spelling, in
\* mixed case and inside other text.
C14_Witness ==
  /\ scanned
  /\ code = <<"i", "s", " ", "e", "R", "c", "4", "9", "0", "7", "(", "x", ")">>
  /\ HitFor("4907")

\* C15: for every standard of the pattern table, with number n, each of the
\* spellings ERC<n>, IERC<n>, erc-<n> and eip-<n> occurring in the scanned
\* text produces a hit for that standard.
C15_EverySpellingHits ==
  scanned =>
    \A p \in DOMAIN ERC_PATTERNS : \A v \in DOMAIN Spellings :
      ContainsNoCase(code, Spellings[v] \o DigitsOf[ERC_PATTERNS[p].ercNumber])
        => HitFor(ERC_PATTERNS[p].ercNumber)

\* No pattern of the table matches on any line of the text.
NothingMatches(text) ==
  LET lines == Split(text)
  IN \A p \in DOMAIN ERC_PATTERNS : \A l \in DOMAIN lines :
       CountMatches(ERC_PATTERNS[p].pattern, lines[l], 1) = 0

\* C16: for every text in which no pattern matches, the empty text included,
\* scanSolidity returns the empty list.
C16_NoMatchNoHits ==
  (scanned /\ NothingMatches(code)) => hits = <<>>

\* The empty text scanned, and a text of several lines without a match.
C16_Witness ==
  /\ scanned
  /\ NothingMatches(code)
  /\ Len(Split(code)) > 1

\* C17: scanning the one-line text import "...ERC777/ERC777.sol"; yields
\* exactly one hit, for "777", whose health record has risk level critical
\* and a replacement with number "20".
C17_ImportOfERC777 ==
  (scanned /\ code = ImportLine) =>
    /\ Len(hits) = 1
    /\ hits[1].ercNumber = "777"
    /\ hits[1].health # Null
    /\ hits[1].health.riskLevel = "critical"
    /\ hits[1].health.replacement # Undefined
    /\ hits[1].health.replacement.ercNumber = "20"

C17_Witness ==
  /\ scanned
  /\ code = ImportLine
  /\ hits[1].count = 2

\* The flagged list holding every hit with a health record.
issuesAnyHealth(results) == SelectSeq(results, LAMBDA r : r.health # Null)

\* results.filter((r) => r.health && r.health.health !== "safe")
issues(results) ==
  SelectSeq(results, LAMBDA r : r.health # Null /\ r.health.health # "safe")

\* The safe list built from the health records alone.
safeByHealthOnly(results) ==
  SelectSeq(results, LAMBDA r : r.health # Null /\ r.health.health = "safe")

\* results.filter((r) => r.isSafe || r.health?.health === "safe")
safe(results) ==
  SelectSeq(results, LAMBDA r : r.isSafe \/ (r.health # Null /\ r.health.health = "safe"))

Listed(list, n) == \E k \in DOMAIN list : list[k].ercNumber = n

\* C18: a hit for a standard that has no entry in the health table and is in
\* the known-safe list has isSafe true and health null, and the view lists
\* it among the safe standards and not among the flagged ones.
C18_KnownSafeReportedSafe ==
  scanned =>
    \A i \in DOMAIN hits :
      ( /\ hits[i].ercNumber \notin DOMAIN ercHealthDB
        /\ \E k \in DOMAIN SAFE_ERCS : SAFE_ERCS[k] = hits[i].ercNumber )
      => /\ hits[i].isSafe
         /\ hits[i].health = Null
         /\ Listed(safe(hits), hits[i].ercNumber)
         /\ ~Listed(issues(hits), hits[i].ercNumber)

\* A scan that finds a known-safe standard without a health record.
C18_Witness ==
  /\ scanned
  /\ \E i \in DOMAIN hits :
       /\ hits[i].ercNumber = "1363"
       /\ hits[i].isSafe
       /\ Len(safe(hits)) = 1
       /\ issues(hits) = <<>>

\* ResultCard({ hit }): the card of a safe standard, nothing, or the card of
\* the hit's health record (healthConfig has an entry for every health).
ResultCard(hit) ==
  IF hit.isSafe \/ (hit.health # Null /\ hit.health.health = "safe")
  THEN [card |-> "safe", label |-> hit.label, count |-> hit.count]
  ELSE IF hit.health = Null THEN Null
  ELSE [card |-> hit.health.health, label |-> hit.label, count |-> hit.count,
        lines |-> hit.lines, replacement |-> hit.health.replacement]

\* C29: every hit of a scan result is in exactly one of the two displayed
\* groups, flagged or safe, and is displayed there with the card of its group:
\* the number found is the number flagged plus the number safe.
C29_EveryHitInOneGroup ==
  scanned =>
    /\ Len(hits) = Len(issues(hits)) + Len(safe(hits))
    /\ \A i \in DOMAIN hits :
         Listed(issues(hits), hits[i].ercNumber) # Listed(safe(hits), hits[i].ercNumber)
    /\ \A k \in DOMAIN issues(hits) :
         /\ ResultCard(issues(hits)[k]) # Null
         /\ ResultCard(issues(hits)[k]).card # "safe"
    /\ \A k \in DOMAIN safe(hits) :
         /\ ResultCard(safe(hits)[k]) # Null
         /\ ResultCard(safe(hits)[k]).card = "safe"

\* A scan with flagged standards and safe ones, one of them safe by its
\* health record.
C29_Witness ==
  /\ scanned
  /\ Len(issues(hits)) >= 2
  /\ Len(safe(hits)) >= 2
  /\ Listed(safe(hits), "2612")
  /\ Listed(safe(hits), "20")

\* C30: every record of the health table is stored under its own number, and
\* every replacement it suggests is in the known-safe list and has no health
\* record other than a safe one.
C30_ReplacementsAreSafe ==
  \A n \in DOMAIN healthTable :
    /\ healthTable[n].number = n
    /\ healthTable[n].replacement # Undefined =>
         LET to == healthTable[n].replacement.ercNumber
         IN /\ Includes(safeSet, to)
            /\ to \in DOMAIN healthTable => healthTable[to].health = "safe"

\* A scan shows the card of a flagged standard with its replacement, 3643.
C30_Witness ==
  /\ scanned
  /\ \E k \in DOMAIN issues(hits) :
       /\ issues(hits)[k].ercNumber = "884"
       /\ ResultCard(issues(hits)[k]).replacement # Undefined
       /\ ResultCard(issues(hits)[k]).replacement.ercNumber = "3643"
       /\ Includes(safeSet, "3643")

(***************************************************************************)
(* The catalog of standards, as the proxy lists it in its system prompt.   *)
(***************************************************************************)

\* The numbers of the standards of ERC_LIST, in its order.
ERC_LIST ==
  <<"20", "721", "1155", "4626", "2981", "777", "1363", "4907", "6551", "4337", "1167", "1967", "2612", "3643", "5192", "3525", "1820", "165", "3156", "725", "1400", "2771", "5169">>

Catalog == {ERC_LIST[k] : k \in DOMAIN ERC_LIST}

\* The pairs of identifiers that are keys of the rule table.
RulePairs ==
  {pair \in Identifiers \X Identifiers : Key(pair[1], pair[2]) \in DOMAIN rules}

\* C19: every key of the health table and every identifier occurring in a
\* key of the compatibility-rule table is a standard of the catalog.
C19_KeysInCatalog ==
  /\ \A n \in DOMAIN healthTable : n \in Catalog
  /\ \A pair \in RulePairs : pair[1] \in Catalog /\ pair[2] \in Catalog

\* Every key of the rule table is the key of a pair of RulePairs.
RuleKeysAreNamed == Cardinality(RulePairs) = Cardinality(DOMAIN rules)

(***************************************************************************)
(* The compatibility matrix (the CompatibilityMatrix component)            *)
(***************************************************************************)

VARIABLES
  ercs,                    \* the numbers of the standards of the ercs prop
  active,                  \* the state of useState: null or {a, b, rule}
  cells,                   \* the cells of the grid as last rendered
  lookedUp                 \* the pairs getRule was called with while rendering

matrixVars == <<ercs, active, cells, lookedUp>>

\* MATRIX_ERCS.filter((n) => dbNumbers.has(n))
ercNumbers(dbNumbers) == SelectSeq(MATRIX_ERCS, LAMBDA n : n \in dbNumbers)

\* The cell of a standard against itself: a plain block, no button.
SameStandard == [same |-> TRUE]

\* The grid with the row === col test left out: every cell is a button.
CellNoSelfCase(rowNum, colNum, act) ==
  LET rule == getRule(rowNum, colNum)
      isActive == act # Null /\ act.a = rowNum /\ act.b = colNum
  IN [rule |-> rule, isActive |-> isActive,
      onClick |-> IF isActive THEN Null
                  ELSE [a |-> rowNum, b |-> colNum, rule |-> rule]]

\* One cell of the grid, rendered while the state is act.  onClick is the
\* value the button's handler passes to setActive.
Cell(rowNum, colNum, act) ==
  IF rowNum = colNum THEN SameStandard
  ELSE
    LET rule == getRule(rowNum, colNum)
        isActive == act # Null /\ act.a = rowNum /\ act.b = colNum
    IN [rule |-> rule, isActive |-> isActive,
        onClick |-> IF isActive THEN Null
                    ELSE [a |-> rowNum, b |-> colNum, rule |-> rule]]

\* The numbers of the rows, which are those of the columns.
Shown(dbNumbers) ==
  {ercNumbers(dbNumbers)[k] : k \in DOMAIN ercNumbers(dbNumbers)}

\* The body of the table.
Grid(dbNumbers, act) ==
  [at \in Shown(dbNumbers) \X Shown(dbNumbers) |-> Cell(at[1], at[2], act)]

\* The calls of getRule one rendering of the grid makes: one for each cell
\* that is a button.
GridLookups(grid) == {at \in DOMAIN grid : "rule" \in DOMAIN grid[at]}

\* The ercs prop: the catalog of the proxy, one with standards that catalog
\* lacks and a standard the matrix does not show, and an empty one.
Props ==
  { Catalog,
    {"20", "721", "4337", "5484", "1271", "9999"},
    {} }

\* The component is not mounted.
MatrixIdle ==
  /\ ercs = {}
  /\ active = Null
  /\ cells = Grid({}, Null)
  /\ lookedUp = {}

\* The component is mounted and rendered for the first time.
InitMatrixProps ==
  /\ ercs \in Props
  /\ active = Null
  /\ cells = Grid(ercs, Null)
  /\ lookedUp = GridLookups(cells)

\* A click on the cell of rowNum and colNum: its handler, when it has one,
\* sets the state, and the component renders again.
Click(rowNum, colNum) ==
  /\ <<rowNum, colNum>> \in DOMAIN cells
  /\ "onClick" \in DOMAIN cells[<<rowNum, colNum>>]
  /\ active' = cells[<<rowNum, colNum>>].onClick
  /\ cells' = Grid(ercs, active')
  /\ lookedUp' = lookedUp \cup GridLookups(cells')
  /\ UNCHANGED ercs

NextClick == \E rowNum \in Identifiers, colNum \in Identifiers : Click(rowNum, colNum)

\* C20: a self-pair is a case of its own: its cell is the "same standard"
\* cell, getRule is never called for it, and whatever cells are clicked the
\* active pair is never a self-pair.
C20_SelfPairDistinct ==
  /\ \A n \in Shown(ercs) :
       /\ cells[<<n, n>>] = SameStandard
       /\ <<n, n>> \notin lookedUp
  /\ \A at \in lookedUp : at[1] # at[2]
  /\ active # Null => active.a # active.b

\* A pair is active after a click, next to the cells of the two standards
\* against themselves.
C20_Witness ==
  /\ active # Null
  /\ cells[<<active.a, active.b>>].isActive
  /\ cells[<<active.a, active.a>>] = SameStandard
  /\ cells[<<active.b, active.b>>] = SameStandard
  /\ <<active.a, active.b>> \in lookedUp

(***************************************************************************)
(* Recommendation proxy (the serve handler)                                *)
(*                                                                         *)
(* JavaScript values are records named after their type: [string |-> s],   *)
(* [number |-> n], [bool |-> b], [array |-> <<v1, ...>>], [object |->      *)
(* <<<<key, value>>, ...>>], Null and Undefined.  An expression that       *)
(* throws evaluates to [throw |-> e].                                      *)
(***************************************************************************)

VARIABLES apiKey, pc, request, reply, calls, response, gatewayCalls

proxyVars == <<apiKey, pc, request, reply, calls, response, gatewayCalls>>

Str(s) == [string |-> s]

Num(n) == [number |-> n]

Bool(b) == [bool |-> b]

Arr(items) == [array |-> items]

Obj(members) == [object |-> members]

IsString(x) == "string" \in DOMAIN x

IsNullish(x) == x = Null \/ x = Undefined

\* typeof x
TypeOf(x) ==
  IF IsString(x) THEN "string"
  ELSE IF "number" \in DOMAIN x THEN "number"
  ELSE IF "bool" \in DOMAIN x THEN "boolean"
  ELSE IF x = Undefined THEN "undefined"
  ELSE "object"

\* The values !x is false for.
Truthy(x) ==
  IF IsString(x) THEN x.string # ""
  ELSE IF "number" \in DOMAIN x THEN x.number # 0
  ELSE IF "bool" \in DOMAIN x THEN x.bool
  ELSE ~IsNullish(x)

\* An Error instance, and a thrown expression.
Err(name, message) == [name |-> name, message |-> message]

Throw(e) == [throw |-> e]

IsThrow(x) == "throw" \in DOMAIN x

\* e instanceof Error
InstanceOfError(e) == "message" \in DOMAIN e

\* x[key] for a value that is neither null nor undefined: the member of an
\* object, the element of an array (key "0" is index 0), undefined otherwise.
Member(x, key) ==
  IF "object" \in DOMAIN x
  THEN LET at == {k \in DOMAIN x.object : x.object[k][1] = key}
       IN IF at = {} THEN Undefined
          ELSE x.object[CHOOSE k \in at : \A m \in at : m <= k][2]
  ELSE IF "array" \in DOMAIN x
  THEN IF key = "0" /\ Len(x.array) > 0 THEN x.array[1] ELSE Undefined
  ELSE Undefined

\* x.key: reading a property of null or undefined throws a TypeError.
GetProp(x, key) ==
  IF x = Null THEN Throw(Err("TypeError", "Cannot read properties of null"))
  ELSE IF x = Undefined
  THEN Throw(Err("TypeError", "Cannot read properties of undefined"))
  ELSE Member(x, key)

\* x?.key
OptGet(x, key) == IF IsNullish(x) THEN Undefined ELSE Member(x, key)

\* const { key } = x
Destructure(x, key) ==
  IF IsNullish(x)
  THEN Throw(Err("TypeError", "Cannot destructure property of null or undefined"))
  ELSE Member(x, key)

\* JSON.stringify(x) of a value without undefined members; the strings of the
\* model hold no character that JSON escapes.
RECURSIVE Stringify(_), StringifyItems(_, _), StringifyMembers(_, _)
Stringify(x) ==
  IF IsString(x) THEN "\"" \o x.string \o "\""
  ELSE IF "number" \in DOMAIN x THEN ToString(x.number)
  ELSE IF "bool" \in DOMAIN x THEN (IF x.bool THEN "true" ELSE "false")
  ELSE IF "array" \in DOMAIN x
  THEN "[" \o StringifyItems(x.array, Len(x.array)) \o "]"
  ELSE IF "object" \in DOMAIN x
  THEN "{" \o StringifyMembers(x.object, Len(x.object)) \o "}"
  ELSE "null"

StringifyItems(items, n) ==
  IF n = 0 THEN ""
  ELSE IF n = 1 THEN Stringify(items[1])
  ELSE StringifyItems(items, n - 1) \o "," \o Stringify(items[n])

StringifyMembers(members, n) ==
  IF n = 0 THEN ""
  ELSE LET member == "\"" \o members[n][1] \o "\":" \o Stringify(members[n][2])
       IN IF n = 1 THEN member
          ELSE StringifyMembers(members, n - 1) \o "," \o member

\* String(x), the conversion JSON.parse applies to its argument.
RECURSIVE ToStr(_), JoinItems(_, _)
ToStr(x) ==
  IF IsString(x) THEN x.string
  ELSE IF "number" \in DOMAIN x THEN ToString(x.number)
  ELSE IF "bool" \in DOMAIN x THEN (IF x.bool THEN "true" ELSE "false")
  ELSE IF x = Null THEN "null"
  ELSE IF x = Undefined THEN "undefined"
  ELSE IF "array" \in DOMAIN x THEN JoinItems(x.array, Len(x.array))
  ELSE "[object Object]"

JoinItems(items, n) ==
  IF n = 0 THEN ""
  ELSE LET item == IF IsNullish(items[n]) THEN "" ELSE ToStr(items[n])
       IN IF n = 1 THEN item ELSE JoinItems(items, n - 1) \o "," \o item

\* The payloads a tool call's arguments may spell: the shape the tool's schema
\* asks for, and others the gateway is free to send.
Payloads ==
  { Obj(<< <<"ercNumbers", Arr(<<Str("20"), Str("721")>>)>>,
           <<"reasoning", Str("fungible and non-fungible tokens")>> >>),
    Obj(<< <<"ercNumbers", Arr(<<>>)>>, <<"reasoning", Str("")>> >>),
    Obj(<< <<"ercNumbers", Str("20")>>, <<"reasoning", Num(1)>> >>),
    Obj(<< <<"error", Str("Rate limit exceeded")>> >>),
    Num(7),
    Null }

\* JSON.parse(text): the value the text spells, or a SyntaxError.
ParseFrom(universe, text) ==
  LET spelled == {v \in universe : Stringify(v) = text}
  IN IF spelled = {} THEN Throw(Err("SyntaxError", "Unexpected token in JSON"))
     ELSE CHOOSE v \in spelled : TRUE

JSONParse(x) == ParseFrom(Payloads, ToStr(x))

corsHeaders ==
  [ Access_Control_Allow_Origin |-> "*",
    Access_Control_Allow_Headers |->
      "authorization, x-client-info, apikey, content-type, x-supabase-client-platform, x-supabase-client-platform-version, x-supabase-client-runtime, x-supabase-client-runtime-version" ]

\* { ...corsHeaders, "Content-Type": "application/json" }
JsonHeaders ==
  [ Access_Control_Allow_Origin |-> corsHeaders.Access_Control_Allow_Origin,
    Access_Control_Allow_Headers |-> corsHeaders.Access_Control_Allow_Headers,
    Content_Type |-> "application/json" ]

\* new Response(body, { status, headers }): body is null or a string; the
\* status defaults to 200.
Response(body, status, headers) ==
  [status |-> status, headers |-> headers, body |-> body]

DefaultStatus == 200

\* What a stretch of the handler ends in: a returned response, a thrown
\* value, or the outbound call it is now waiting for.
Return(r) == [return |-> r]

IsReturn(o) == "return" \in DOMAIN o

Fetch(call) == [fetch |-> call]

IsFetch(o) == "fetch" \in DOMAIN o

ErrorBody(message) == Stringify(Obj(<< <<"error", Str(message)>> >>))

ErrorResponse(status, message) ==
  Return(Response(Str(ErrorBody(message)), status, JsonHeaders))

GatewayUrl == "https://ai.gateway.lovable.dev/v1/chat/completions"

\* The handler without its try/catch: an exception leaves the handler.
CatchNothing(outcome) == outcome

\* catch (e): every exception becomes a 500 response.
Catch(outcome) ==
  IF IsThrow(outcome)
  THEN ErrorResponse(500, IF InstanceOfError(outcome.throw)
                          THEN outcome.throw.message ELSE "Unknown error")
  ELSE outcome

\* !description || typeof description !== "string"
InvalidDescription(description) ==
  ~Truthy(description) \/ TypeOf(description) # "string"

\* The credential never checked.
KeyNotChecked(key) == FALSE

\* !LOVABLE_API_KEY
MissingKey(key) == ~Truthy(key)

\* The body of the try block up to the outbound call: req is the request
\* with the outcome of req.json(), key the value of Deno.env.get.
TryRequest(req, key) ==
  IF IsThrow(req.json) THEN req.json
  ELSE
    LET description == Destructure(req.json, "description")
    IN IF IsThrow(description) THEN description
       ELSE IF InvalidDescription(description)
       THEN ErrorResponse(400, "description is required")
       ELSE IF MissingKey(key)
       THEN Throw(Err("Error", "LOVABLE_API_KEY not configured"))
       ELSE Fetch([url |-> GatewayUrl,
                   authorization |-> "Bearer " \o ToStr(key),
                   description |-> description.string])

\* The handler running an OPTIONS request through the try block.
HandleRequestNoPreflight(req, key) == Catch(TryRequest(req, key))

\* The handler from the request to its first await of the gateway.
HandleRequest(req, key) ==
  IF req.method = "OPTIONS"
  THEN Return(Response(Null, DefaultStatus, corsHeaders))
  ELSE Catch(TryRequest(req, key))

\* response.ok
Ok(status) == status \in 200..299

\* The gateway error branch treating 429 like any other failure.
UpstreamErrorNoRateLimit(res) ==
  IF res.status = 402
  THEN ErrorResponse(402, "Payment required")
  ELSE IF IsThrow(res.text) THEN res.text
  ELSE Throw(Err("Error", "AI gateway error: " \o ToString(res.status)))

\* if (!response.ok) { ... }
UpstreamError(res) ==
  IF res.status = 429
  THEN ErrorResponse(429, "Rate limit exceeded")
  ELSE IF res.status = 402
  THEN ErrorResponse(402, "Payment required")
  ELSE IF IsThrow(res.text) THEN res.text
  ELSE Throw(Err("Error", "AI gateway error: " \o ToString(res.status)))

\* data.choices?.[0]?.message?.tool_calls?.[0]
ToolCallOf(data) ==
  LET choices == GetProp(data, "choices")
  IN IF IsThrow(choices) THEN choices
     ELSE OptGet(OptGet(OptGet(OptGet(choices, "0"), "message"), "tool_calls"), "0")

\* JSON.parse(toolCall.function.arguments) and the success response.
ParsedResponse(toolCall) ==
  LET function == GetProp(toolCall, "function")
      arguments == GetProp(function, "arguments")
      parsed == JSONParse(arguments)
  IN IF IsThrow(arguments) THEN arguments
     ELSE IF IsThrow(parsed) THEN parsed
     ELSE Return(Response(Str(Stringify(parsed)), DefaultStatus, JsonHeaders))

\* The body of the try block from the settling of fetch: res is the
\* rejection of fetch or the gateway's response, with the outcomes of its
\* text() and json().
TryResponse(res) ==
  IF "rejected" \in DOMAIN res THEN Throw(res.rejected)
  ELSE IF ~Ok(res.status) THEN UpstreamError(res)
  ELSE IF IsThrow(res.json) THEN res.json
  ELSE
    LET toolCall == ToolCallOf(res.json)
    IN IF IsThrow(toolCall) THEN toolCall
       ELSE IF ~Truthy(toolCall)
       THEN Throw(Err("Error", "No tool call in AI response"))
       ELSE ParsedResponse(toolCall)

\* The handler repeating its call when the gateway fails.
HandleResponseRetrying(res, call) ==
  IF "rejected" \in DOMAIN res \/ res.status >= 500
  THEN Fetch(call)
  ELSE Catch(TryResponse(res))

\* The handler from the settling of fetch(call) to its response.
HandleResponse(res, call) == Catch(TryResponse(res))

(***************************************************************************)
(* The requests the proxy receives and the ways the gateway answers.       *)
(***************************************************************************)

Methods == {"OPTIONS", "POST", "GET"}

WithDescription(d) == Obj(<< <<"description", d>> >>)

\* The outcomes of req.json(): a body that is not JSON, and JSON bodies with
\* and without a description.
RequestJsons ==
  { Throw(Err("SyntaxError", "Unexpected end of JSON input")),
    Null,
    Str("nft marketplace"),
    Obj(<<>>),
    WithDescription(Str("")),
    WithDescription(Num(0)),
    WithDescription(Num(7)),
    WithDescription(Null),
    WithDescription(Bool(TRUE)),
    WithDescription(Arr(<<Str("nft")>>)),
    WithDescription(Str("nft marketplace")) }

\* The bodies a pre-flight request is tried with.
PreflightJsons ==
  { Throw(Err("SyntaxError", "Unexpected end of JSON input")),
    Obj(<<>>),
    WithDescription(Str("nft marketplace")) }

\* A GET request has no body.
Requests ==
  { [method |-> "POST", json |-> j] : j \in RequestJsons }
    \cup { [method |-> "OPTIONS", json |-> j] : j \in PreflightJsons }
    \cup { [method |-> "GET",
            json |-> Throw(Err("SyntaxError", "Unexpected end of JSON input"))] }

\* The values the environment may hold for LOVABLE_API_KEY.
Keys == {Undefined, Str(""), Str("sk-test")}

Completion(message) ==
  Obj(<< <<"choices", Arr(<< Obj(<< <<"message", message>> >>) >>)>> >>)

WithToolCalls(toolCalls) ==
  Completion(Obj(<< <<"tool_calls", Arr(toolCalls)>> >>))

WithArguments(arguments) ==
  WithToolCalls(<< Obj(<< <<"function",
                             Obj(<< <<"name", Str("suggest_ercs")>>,
                                    <<"arguments", arguments>> >>)>> >>) >>)

\* What the arguments of a tool call may hold.
Arguments ==
  { Str(Stringify(p)) : p \in Payloads }
    \cup { Str("not json"), Null, Num(7), Obj(<<>>) }

\* The outcomes of response.json() for a successful response.
UpstreamJsons ==
  { Throw(Err("SyntaxError", "Unexpected token in JSON")),
    Null,
    Obj(<<>>),
    Obj(<< <<"choices", Arr(<<>>)>> >>),
    Completion(Obj(<< <<"content", Str("use ERC-20")>> >>)),
    WithToolCalls(<<>>),
    WithToolCalls(<<Null>>),
    WithToolCalls(<<Obj(<<>>)>>),
    WithToolCalls(<<Obj(<< <<"function", Obj(<<>>)>> >>)>>) }
    \cup { WithArguments(a) : a \in Arguments }

NotRead == [notRead |-> TRUE]

FailureStatuses == {401, 402, 429, 500, 503}

\* How fetch settles: it rejects, or resolves to a response with a status and
\* the outcomes of reading its body (text() is read for the statuses that
\* are neither 429 nor 402, json() for the successful ones).
Replies ==
  { [rejected |-> Err("TypeError", "error sending request")],
    [rejected |-> Str("aborted")] }
    \cup { [status |-> s, text |-> NotRead, json |-> NotRead] : s \in {429, 402} }
    \cup { [status |-> s, text |-> t, json |-> NotRead] :
             s \in FailureStatuses \ {429, 402},
             t \in {Str("upstream failure"),
                    Throw(Err("TypeError", "error reading a body from connection"))} }
    \cup { [status |-> 200, text |-> NotRead, json |-> j] : j \in UpstreamJsons }

MaxRequests == 2

Invocations == 1..MaxRequests

Nothing == [nothing |-> TRUE]

ProxyIdle ==
  /\ pc = [i \in Invocations |-> "absent"]
  /\ request = [i \in Invocations |-> Nothing]
  /\ reply = [i \in Invocations |-> Nothing]
  /\ calls = [i \in Invocations |-> <<>>]
  /\ response = [i \in Invocations |-> Nothing]
  /\ gatewayCalls = 0

InitProxyKey ==
  /\ apiKey \in Keys
  /\ ProxyIdle

ProxyUnset == apiKey = Undefined /\ ProxyIdle

\* A request arrives.
Receive(i, req) ==
  /\ pc[i] = "absent"
  /\ i > 1 => pc[i - 1] # "absent"
  /\ pc' = [pc EXCEPT ![i] = "received"]
  /\ request' = [request EXCEPT ![i] = req]
  /\ UNCHANGED <<apiKey, reply, calls, response, gatewayCalls>>

\* The handler goes on to its next await or to its end: it waits for the
\* outbound call it made, returns its response, or lets its exception out.
Continue(i, outcome) ==
  IF IsFetch(outcome)
  THEN /\ pc' = [pc EXCEPT ![i] = "fetching"]
       /\ calls' = [calls EXCEPT ![i] = Append(@, outcome.fetch)]
       /\ gatewayCalls' = gatewayCalls + 1
       /\ UNCHANGED response
  ELSE /\ pc' = [pc EXCEPT ![i] = "done"]
       /\ response' = [response EXCEPT ![i] =
                         IF IsReturn(outcome) THEN outcome.return
                         ELSE [escaped |-> outcome.throw]]
       /\ UNCHANGED <<calls, gatewayCalls>>

\* serve calls the handler with the request.
Handle(i) ==
  /\ pc[i] = "received"
  /\ Continue(i, HandleRequest(request[i], apiKey))
  /\ UNCHANGED <<apiKey, request, reply>>

\* The outbound call settles and the handler resumes.
Settle(i, res) ==
  /\ pc[i] = "fetching"
  /\ reply' = [reply EXCEPT ![i] = res]
  /\ Continue(i, HandleResponse(res, calls[i][Len(calls[i])]))
  /\ UNCHANGED <<apiKey, request>>

(***************************************************************************)
(* Properties of the proxy.                                                *)
(***************************************************************************)

\* The request's body is JSON carrying a non-empty string description.
CarriesDescription(req) ==
  /\ ~IsThrow(req.json)
  /\ "object" \in DOMAIN req.json
  /\ \E k \in DOMAIN req.json.object :
       /\ req.json.object[k][1] = "description"
       /\ IsString(req.json.object[k][2])
       /\ req.json.object[k][2].string # ""

\* The strings an error body of the model may carry.
ErrorMessages ==
  { "description is required", "LOVABLE_API_KEY not configured",
    "Rate limit exceeded", "Payment required", "No tool call in AI response",
    "Unknown error", "Unexpected end of JSON input", "Unexpected token in JSON",
    "Cannot read properties of null", "Cannot read properties of undefined",
    "Cannot destructure property of null or undefined",
    "error sending request", "error reading a body from connection" }
    \cup { "AI gateway error: " \o ToString(s) : s \in FailureStatuses }

\* A response whose body is the JSON text {"error": <string>}.
IsErrorResponse(r) ==
  /\ "status" \in DOMAIN r
  /\ IsString(r.body)
  /\ \E m \in ErrorMessages : r.body.string = ErrorBody(m)

Answered(i) == pc[i] = "done"

\* C6: a POST whose body does not carry a non-empty string description is
\* answered with status 400 and an error body, and makes no outbound call.
C6_BadDescriptionIs400 ==
  \A i \in Invocations :
    (Answered(i) /\ request[i].method = "POST" /\ ~CarriesDescription(request[i]))
      => /\ IsErrorResponse(response[i])
         /\ response[i].status = 400
         /\ calls[i] = <<>>

\* The reply of the gateway to invocation i is a response with a
\* non-success status.
UpstreamFailed(i) ==
  /\ Answered(i)
  /\ "status" \in DOMAIN reply[i]
  /\ reply[i].status \notin 200..299

\* C7: when the upstream call returns a non-success status, the proxy answers
\* 429 with the rate-limit message for upstream 429, 402 with the payment
\* message for upstream 402, and 500 for every other status, with an error
\* body whose message is not the rate-limit message.
C7_UpstreamStatusMapped ==
  \A i \in Invocations :
    UpstreamFailed(i) =>
      /\ IsErrorResponse(response[i])
      /\ reply[i].status = 429 =>
           /\ response[i].status = 429
           /\ response[i].body = Str(ErrorBody("Rate limit exceeded"))
      /\ reply[i].status = 402 =>
           /\ response[i].status = 402
           /\ response[i].body = Str(ErrorBody("Payment required"))
      /\ reply[i].status \notin {429, 402} =>
           /\ response[i].status = 500
           /\ response[i].body # Str(ErrorBody("Rate limit exceeded"))
           /\ response[i].body # Str(ErrorBody("Payment required"))

\* One invocation answered on an upstream 429 and another on an upstream 500.
C7_Witness ==
  /\ \E i \in Invocations : UpstreamFailed(i) /\ reply[i].status = 429
  /\ \E i \in Invocations : UpstreamFailed(i) /\ reply[i].status = 500

RECURSIVE TotalCalls(_)
TotalCalls(n) == IF n = 0 THEN 0 ELSE TotalCalls(n - 1) + Len(calls[n])

C9_AlwaysAResponse ==
  \A i \in Invocations :
    (Answered(i) /\ request[i].method # "OPTIONS") =>
      /\ "escaped" \notin DOMAIN response[i]
      /\ \/ /\ response[i].status = 200
            /\ \E p \in Payloads : response[i].body = Str(Stringify(p))
         \/ /\ response[i].status \in {400, 402, 429, 500}
            /\ IsErrorResponse(response[i])

\* A request whose body is not JSON and a request whose upstream response
\* is not JSON, both answered.
C9_Witness ==
  /\ \E i \in Invocations : Answered(i) /\ request[i].method # "OPTIONS"
                              /\ IsThrow(request[i].json)
  /\ \E i \in Invocations : Answered(i) /\ "json" \in DOMAIN reply[i]
                              /\ IsThrow(reply[i].json)

\* C10 as stated: with the credential absent, every request is answered with
\* status 500 and an error body, and no outbound call is made.
C10_EveryRequestFails ==
  apiKey = Undefined =>
    \A i \in Invocations :
      /\ calls[i] = <<>>
      /\ Answered(i) => (IsErrorResponse(response[i]) /\ response[i].status = 500)

\* C10: with the credential absent, every non-OPTIONS request whose body
\* carries a non-empty string description is answered with status 500 and the
\* configuration error, and no request makes an outbound call.
C10_ValidRequestsFail ==
  apiKey = Undefined =>
    /\ gatewayCalls = 0
    /\ \A i \in Invocations :
         /\ calls[i] = <<>>
         /\ ( /\ Answered(i)
              /\ request[i].method # "OPTIONS"
              /\ CarriesDescription(request[i]) )
            => /\ response[i].status = 500
               /\ response[i].body = Str(ErrorBody("LOVABLE_API_KEY not configured"))

\* A valid request answered with the credential absent.
C10_Witness ==
  /\ apiKey = Undefined
  /\ \E i \in Invocations :
       /\ Answered(i)
       /\ request[i].method = "POST"
       /\ CarriesDescription(request[i])

\* The payload has the shape the tool's schema asks for: an object whose
\* ercNumbers is an array of strings and whose reasoning is a string.
IsRecommendation(p) ==
  /\ "object" \in DOMAIN p
  /\ \E k \in DOMAIN p.object :
       /\ p.object[k][1] = "ercNumbers"
       /\ "array" \in DOMAIN p.object[k][2]
       /\ \A e \in DOMAIN p.object[k][2].array : IsString(p.object[k][2].array[e])
  /\ \E k \in DOMAIN p.object :
       /\ p.object[k][1] = "reasoning"
       /\ IsString(p.object[k][2])

\* The gateway answered invocation i with a successful response.
UpstreamSucceeded(i) ==
  /\ Answered(i)
  /\ "status" \in DOMAIN reply[i]
  /\ reply[i].status \in 200..299

\* The arguments of the tool call of a successful reply, Undefined when the
\* reply has no tool call or the tool call has none.
ArgumentsIn(data) ==
  IF \E a \in Arguments : data = WithArguments(a)
  THEN CHOOSE a \in Arguments : data = WithArguments(a)
  ELSE Undefined

\* The arguments spell a recommendation.
SpellsRecommendation(a) ==
  /\ IsString(a)
  /\ \E p \in Payloads : IsRecommendation(p) /\ a.string = Stringify(p)

IsSuccessResponse(r) == "status" \in DOMAIN r /\ r.status \in 200..299

\* C11: when the upstream responds with success but without a tool call, or
\* with a tool call whose arguments are missing or do not spell a well-formed
\* structured payload, the proxy answers 500 with an error body and never
\* with a success response.
C11_ProtocolErrorIs500 ==
  \A i \in Invocations :
    ( /\ UpstreamSucceeded(i)
      /\ \/ IsThrow(reply[i].json)
         \/ ~SpellsRecommendation(ArgumentsIn(reply[i].json)) )
    => /\ IsErrorResponse(response[i])
       /\ response[i].status = 500

\* C12: every success response of the proxy has a JSON body with an
\* ercNumbers field that is an array of strings and a reasoning field that is
\* a string.
C12_SuccessHasShape ==
  \A i \in Invocations :
    (Answered(i) /\ request[i].method # "OPTIONS" /\ IsSuccessResponse(response[i]))
      => /\ IsString(response[i].body)
         /\ \E p \in Payloads :
              IsRecommendation(p) /\ response[i].body.string = Stringify(p)

\* C13: an OPTIONS request is answered with the permissive cross-origin
\* headers and no body, and causes no outbound call, whatever its body and
\* the credential.
C13_PreflightAnswered ==
  \A i \in Invocations :
    (pc[i] # "absent" /\ request[i].method = "OPTIONS") =>
      /\ pc[i] # "fetching"
      /\ calls[i] = <<>>
      /\ reply[i] = Nothing
      /\ Answered(i) =>
           /\ response[i].headers = corsHeaders
           /\ response[i].headers.Access_Control_Allow_Origin = "*"
           /\ response[i].body = Null

\* Pre-flight requests answered with the credential present and absent, one
\* with a valid description in its body and one with a body that is not JSON.
C13_Witness ==
  /\ \E i \in Invocations :
       /\ Answered(i) /\ request[i].method = "OPTIONS"
       /\ CarriesDescription(request[i])
       /\ Truthy(apiKey)
  /\ \E i \in Invocations :
       /\ Answered(i) /\ request[i].method = "OPTIONS"
       /\ IsThrow(request[i].json)

(***************************************************************************)
(* The scanner view (the DeprecatedERCScanner component)                   *)
(*                                                                         *)
(* The component's state code is the variable input here: code is the      *)
(* argument of the last call of scanSolidity.                              *)
(***************************************************************************)

VARIABLES
  input,                   \* useState(""): the text of the input area
  results,                 \* useState(null): null or the array of hits displayed
  scanning,                \* useState(false)
  timers,                  \* the pending setTimeout callbacks: the code of each
  asked                    \* the text Scan was last clicked on

scannerVars == <<input, results, scanning, timers, asked>>

\* EXAMPLE_CODE by its three import lines (lines 4 to 6 of the text): the
\* standards 777, 1820 and 20.  The other lines name 777 again and no other
\* standard.
EXAMPLE_CODE ==
  <<"i", "m", "p", "o", "r", "t", " ", "\"", "@", "o", "p", "e", "n", "z", "e", "p", "p", "e",
    "l", "i", "n", "/", "c", "o", "n", "t", "r", "a", "c", "t", "s", "/", "t", "o", "k", "e",
    "n", "/", "E", "R", "C", "7", "7", "7", "/", "E", "R", "C", "7", "7", "7", ".", "s", "o",
    "l", "\"", ";", "\n", "i", "m", "p", "o", "r", "t", " ", "\"", "@", "o", "p", "e", "n",
    "z", "e", "p", "p", "e", "l", "i", "n", "/", "c", "o", "n", "t", "r", "a", "c", "t", "s",
    "/", "u", "t", "i", "l", "s", "/", "i", "n", "t", "r", "o", "s", "p", "e", "c", "t", "i",
    "o", "n", "/", "E", "R", "C", "1", "8", "2", "0", "I", "m", "p", "l", "e", "m", "e", "n",
    "t", "e", "r", ".", "s", "o", "l", "\"", ";", "\n", "i", "m", "p", "o", "r", "t", " ",
    "\"", "@", "o", "p", "e", "n", "z", "e", "p", "p", "e", "l", "i", "n", "/", "c", "o", "n",
    "t", "r", "a", "c", "t", "s", "/", "t", "o", "k", "e", "n", "/", "E", "R", "C", "2", "0",
    "/", "E", "R", "C", "2", "0", ".", "s", "o", "l", "\"", ";">>

WhiteSpace == {" ", "\n", "\t"}

\* code.trim()
RECURSIVE TrimStart(_), TrimEnd(_)
TrimStart(t) ==
  IF t # <<>> /\ Head(t) \in WhiteSpace THEN TrimStart(Tail(t)) ELSE t

TrimEnd(t) ==
  IF t # <<>> /\ t[Len(t)] \in WhiteSpace THEN TrimEnd(SubSeq(t, 1, Len(t) - 1)) ELSE t

Trim(t) == TrimEnd(TrimStart(t))

\* !code.trim()
Blank(t) == Trim(t) = <<>>

\* The texts typed into the input area: the empty one, a blank one, one
\* without a standard, and texts naming standards.
ViewTexts ==
  { <<>>,
    <<" ", "\n", "	">>,
    <<"u", "i", "n", "t", " ", "x", ";">>,
    <<"E", "R", "C", "2", "0">>,
    <<" ", "e", "r", "c", "-", "7", "7", "7", " ", "I", "E", "R", "C", "7", "7", "7", "\n">> }

\* The callbacks of setTimeout the model lets be pending at once.
MaxPending == 2

NotAsked == [asked |-> FALSE]

\* The component as mounted.
ViewIdle ==
  /\ input = <<>>
  /\ results = Null
  /\ scanning = FALSE
  /\ timers = <<>>
  /\ asked = NotAsked

\* The Scan button enabled whenever there is text to scan.
ScanDisabledWhenBlankOnly(text, busy) == Blank(text)

\* disabled={!code.trim() || scanning}
ScanDisabled(text, busy) == Blank(text) \/ busy

\* handleScan: the callback of setTimeout keeps the code of this render.
handleScan ==
  IF Blank(input) THEN UNCHANGED <<scanning, timers>>
  ELSE /\ Len(timers) < MaxPending
       /\ scanning' = TRUE
       /\ timers' = Append(timers, input)

\* A click on the Scan button; a disabled button has no handler to run.
ClickScan ==
  /\ asked' = [asked |-> TRUE, text |-> input]
  /\ IF ScanDisabled(input, scanning) THEN UNCHANGED <<scanning, timers>>
     ELSE handleScan
  /\ UNCHANGED <<input, results, scanVars>>

\* The callback of setTimeout, 400 ms after handleScan.
Timeout ==
  /\ timers # <<>>
  /\ ScanCall(Head(timers))
  /\ results' = Arr(hits')
  /\ scanning' = FALSE
  /\ timers' = Tail(timers)
  /\ UNCHANGED <<input, asked, ref>>

\* onChange of the textarea
Edit(t) ==
  /\ input' = t
  /\ results' = Null
  /\ UNCHANGED <<scanning, timers, asked, scanVars>>

\* handleExample
handleExample ==
  /\ input' = EXAMPLE_CODE
  /\ results' = Null
  /\ UNCHANGED <<scanning, timers, asked, scanVars>>

\* handleReset; the Reset button is rendered when code || results.
handleReset ==
  /\ input # <<>> \/ results # Null
  /\ input' = <<>>
  /\ results' = Null
  /\ UNCHANGED <<scanning, timers, asked, scanVars>>

\* What the results panel shows.
Display ==
  IF results = Null THEN "none"
  ELSE IF Len(issues(results.array)) > 0 THEN "issues detected"
  ELSE IF Len(results.array) = 0 THEN "No ERC patterns detected in this code"
  ELSE "All detected ERCs are current and safe"

\* C21: a click on Scan while the text is empty or whitespace only leads to
\* the display of an empty result list, "no patterns detected".
C21_BlankScanShowsEmpty ==
  (asked # NotAsked /\ Blank(asked.text))
    ~> (Display = "No ERC patterns detected in this code")

\* C24: whenever a result list is displayed it is the scan result of the text
\* in the input area, whatever the order of Scan, edits, Load example, Reset
\* and the completion of a scan.
C24_ResultsOfCurrentText ==
  results # Null => results.array = scanSolidity(input).hits

\* C25: at most one scan is pending at any time, and a scan that has started
\* completes: scanning is false again and a result list is set.
C25_OnePendingScanCompletes ==
  /\ [](Len(timers) <= 1 /\ (scanning <=> timers # <<>>))
  /\ scanning ~> (~scanning /\ results # Null)

\* A scan of a text that names standards has completed.
C25_Witness ==
  /\ scanned
  /\ ~scanning
  /\ timers = <<>>
  /\ results # Null
  /\ results.array # <<>>
  /\ ~Blank(code)

(***************************************************************************)
(* The comparison list and drawer (Index, CompareBar, CompareDrawer)       *)
(***************************************************************************)

VARIABLES
  compareList,             \* useState([]): the standards selected for comparison
  compareOpen              \* useState(false): the open prop of the drawer

compareVars == <<compareList, compareOpen>>

\* The standards whose cards the page shows: the first MaxOffered of the
\* catalog.
MaxOffered == 6

Offered == {[number |-> ERC_LIST[k]] : k \in 1..MaxOffered}

\* prev.length >= 5
CompareLimit == 5

\* prev.filter((e) => e.number !== number)
Without(prev, number) == SelectSeq(prev, LAMBDA e : e.number # number)

\* The updater of handleCompareToggle without the test of the length.
ToggledWithoutLimit(prev, erc) ==
  IF \E k \in DOMAIN prev : prev[k].number = erc.number
  THEN Without(prev, erc.number)
  ELSE Append(prev, erc)

\* The updater of handleCompareToggle.
Toggled(prev, erc) ==
  IF \E k \in DOMAIN prev : prev[k].number = erc.number
  THEN Without(prev, erc.number)
  ELSE IF Len(prev) >= CompareLimit THEN prev
  ELSE Append(prev, erc)

CompareIdle ==
  /\ compareList = <<>>
  /\ compareOpen = FALSE

\* CompareDrawer: nothing for an empty selection, else the sheet, shown
\* while open.
DrawerDisplayed == Len(compareList) # 0 /\ compareOpen

\* CompareBar: rendered while count > 0; Compare is disabled while count < 2.
BarDisplayed == Len(compareList) > 0

CompareDisabled == Len(compareList) < 2

\* The compare button of a card.
handleCompareToggle(erc) ==
  /\ compareList' = Toggled(compareList, erc)
  /\ UNCHANGED compareOpen

\* The remove button of a column of the drawer.
handleCompareRemove(number) ==
  /\ DrawerDisplayed
  /\ \E k \in DOMAIN compareList : compareList[k].number = number
  /\ compareList' = Without(compareList, number)
  /\ UNCHANGED compareOpen

\* onCompare, the Compare button of the bar.
Compare ==
  /\ BarDisplayed
  /\ ~CompareDisabled
  /\ compareOpen' = TRUE
  /\ UNCHANGED compareList

\* onClear, the Clear button of the bar.
Clear ==
  /\ BarDisplayed
  /\ compareList' = <<>>
  /\ UNCHANGED compareOpen

\* onOpenChange(false): the sheet is closed.
CloseDrawer ==
  /\ DrawerDisplayed
  /\ compareOpen' = FALSE
  /\ UNCHANGED compareList

InList(list, number) == \E k \in DOMAIN list : list[k].number = number

\* C26: the comparison list holds at most 5 standards and no number twice;
\* a toggle removes a standard that is in the list, appends one that is not
\* while the list has fewer than 5, and changes nothing when it has 5.
C26_CompareListBounded ==
  /\ Len(compareList) <= 5
  /\ \A j, k \in DOMAIN compareList :
       compareList[j].number = compareList[k].number => j = k
  /\ \A erc \in Offered :
       LET next == Toggled(compareList, erc)
       IN IF InList(compareList, erc.number)
          THEN /\ ~InList(next, erc.number)
               /\ Len(next) = Len(compareList) - 1
          ELSE IF Len(compareList) < 5
          THEN next = compareList \o <<erc>>
          ELSE next = compareList

\* The list is full and a card of a standard outside it can be toggled.
C26_Witness ==
  /\ Len(compareList) = 5
  /\ \E erc \in Offered : ~InList(compareList, erc.number)

\* C27: the comparison drawer is displayed only while at least 2 standards
\* are selected.
C27_DrawerNeedsTwo == DrawerDisplayed => Len(compareList) >= 2

(***************************************************************************)
(* The AI search view (the AISearch component)                             *)
(***************************************************************************)

VARIABLES
  prompt,                  \* useState(""): the text of the input
  loading,                 \* useState(false)
  result,                  \* useState(null): null or the body of the last success
  inflight,                \* the calls of invoke that have not settled: their prompts
  notified,                \* the message toast.error got since the last search began
  crashed,                 \* rendering the view threw
  triggered                \* what the last Enter or click did

searchVars == <<prompt, loading, result, inflight, notified, crashed, triggered>>

\* The entries of ercDatabase by their number: the standards of the catalog.
ercDatabase == [k \in DOMAIN ERC_LIST |-> [number |-> ERC_LIST[k]]]

\* The characters of the numbers a string of the model may hold.
NumberText ==
  "20" :> <<"2", "0">> @@
  "721" :> <<"7", "2", "1">> @@
  "1155" :> <<"1", "1", "5", "5">> @@
  "4626" :> <<"4", "6", "2", "6">> @@
  "2981" :> <<"2", "9", "8", "1">> @@
  "777" :> <<"7", "7", "7">> @@
  "1363" :> <<"1", "3", "6", "3">> @@
  "4907" :> <<"4", "9", "0", "7">> @@
  "6551" :> <<"6", "5", "5", "1">> @@
  "4337" :> <<"4", "3", "3", "7">> @@
  "1167" :> <<"1", "1", "6", "7">> @@
  "1967" :> <<"1", "9", "6", "7">> @@
  "2612" :> <<"2", "6", "1", "2">> @@
  "3643" :> <<"3", "6", "4", "3">> @@
  "5192" :> <<"5", "1", "9", "2">> @@
  "3525" :> <<"3", "5", "2", "5">> @@
  "1820" :> <<"1", "8", "2", "0">> @@
  "165" :> <<"1", "6", "5">> @@
  "3156" :> <<"3", "1", "5", "6">> @@
  "725" :> <<"7", "2", "5">> @@
  "1400" :> <<"1", "4", "0", "0">> @@
  "2771" :> <<"2", "7", "7", "1">> @@
  "5169" :> <<"5", "1", "6", "9">> @@
  "9999" :> <<"9", "9", "9", "9">>

\* hay.includes(needle) of two strings
StringIncludes(hay, needle) ==
  LET h == NumberText[hay]
      n == NumberText[needle]
  IN \E i \in 1..(Len(h) - Len(n) + 1) : \A k \in 1..Len(n) : h[i + k - 1] = n[k]

\* Whether list has a method includes: arrays and strings do.
HasIncludes(list) == "array" \in DOMAIN list \/ IsString(list)

\* list.includes(number), for a list that has the method
JsIncludes(list, number) ==
  IF "array" \in DOMAIN list
  THEN \E k \in DOMAIN list.array : list.array[k] = Str(number)
  ELSE StringIncludes(list.string, number)

\* const recommendedERCs = result ? ercDatabase.filter(...) : []
recommendedERCs(res) ==
  IF ~Truthy(res) THEN Arr(<<>>)
  ELSE LET list == Member(res, "ercNumbers")
       IN IF IsNullish(list)
          THEN Throw(Err("TypeError", "Cannot read properties of undefined"))
          ELSE IF ~HasIncludes(list)
          THEN Throw(Err("TypeError", "result.ercNumbers.includes is not a function"))
          ELSE Arr(SelectSeq(ercDatabase, LAMBDA erc : JsIncludes(list, erc.number)))

\* Rendering the view with the result res throws: computing recommendedERCs
\* throws, or {result.reasoning} is an object, which is no valid child.
RenderThrows(res) ==
  /\ Truthy(res)
  /\ \/ IsThrow(recommendedERCs(res))
     \/ "object" \in DOMAIN Member(res, "reasoning")

\* {result && (...)}: the recommendation panel is on the page.
PanelDisplayed == ~crashed /\ Truthy(result)

\* The numbers of the standards the panel lists.
DisplayedNumbers ==
  IF PanelDisplayed
  THEN LET shown == recommendedERCs(result).array
       IN {shown[k].number : k \in DOMAIN shown}
  ELSE {}

\* The texts typed into the input.
Prompts ==
  { <<>>, <<" ">>, <<"n", "f", "t">>, <<" ", "d", "a", "o", " ">> }

Recommendation(numbers, reasoning) ==
  Obj(<< <<"ercNumbers", numbers>>, <<"reasoning", reasoning>> >>)

\* The bodies a 2xx answer of the function may hold: any JSON value.
Bodies ==
  { Recommendation(Arr(<<Str("20"), Str("721")>>), Str("tokens")),
    Recommendation(Arr(<<Str("20"), Str("9999")>>), Str("tokens")),
    Recommendation(Arr(<<>>), Str("nothing fits")),
    Recommendation(Str("1820"), Num(1)),
    Recommendation(Arr(<<Str("721")>>), Obj(<< <<"text", Str("nft")>> >>)),
    Obj(<< <<"error", Str("Rate limit exceeded")>> >>),
    Num(7),
    Null }

\* The errors invoke reports: objects with or without a status.
Errors ==
  { Obj(<< <<"status", Num(429)>> >>), Obj(<< <<"status", Num(402)>> >>),
    Obj(<< <<"status", Num(500)>> >>), Obj(<< <<"name", Str("FunctionsHttpError")>> >>) }

\* What a call of invoke settles with: { data, error }, or a rejection.
InvokeResults ==
  {[data |-> d, error |-> Null] : d \in Bodies}
    \cup {[data |-> Null, error |-> e] : e \in Errors}
    \cup {Throw(Err("TypeError", "Failed to fetch"))}

\* The most calls of invoke the model lets be pending.
MaxInFlight == 2

SearchIdle ==
  /\ prompt = <<>>
  /\ loading = FALSE
  /\ result = Null
  /\ inflight = <<>>
  /\ notified = ""
  /\ crashed = FALSE
  /\ triggered = "nothing"

\* if (!prompt.trim() || loading) return;
SearchRefusedWhenBlankOnly(text, busy) == Blank(text)

SearchRefused(text, busy) == Blank(text) \/ busy

\* handleSearch up to its await: the guard, setLoading(true), setResult(null)
\* and the call of invoke.
handleSearch ==
  IF SearchRefused(prompt, loading)
  THEN /\ triggered' = "ignored"
       /\ UNCHANGED <<prompt, loading, result, inflight, notified, crashed>>
  ELSE /\ Len(inflight) < MaxInFlight
       /\ triggered' = "started"
       /\ loading' = TRUE
       /\ result' = Null
       /\ inflight' = Append(inflight, prompt)
       /\ notified' = ""
       /\ UNCHANGED <<prompt, crashed>>

\* onChange of the input
SetPrompt(text) ==
  /\ ~crashed
  /\ prompt' = text
  /\ UNCHANGED <<loading, result, inflight, notified, crashed, triggered>>

\* onKeyDown with the key Enter
PressEnter == ~crashed /\ handleSearch

\* A click on the Ask AI button, which is disabled={loading || !prompt.trim()}
ClickAsk ==
  /\ ~crashed
  /\ ~(loading \/ Blank(prompt))
  /\ handleSearch

\* The message of the toast for an error with this status.
ErrorToast(status) ==
  IF status = Num(429) THEN "Rate limit reached. Please wait a moment and try again."
  ELSE IF status = Num(402) THEN "AI credits exhausted. Please add credits to continue."
  ELSE "AI search failed. Please try again."

\* handleSearch from its await on: the call of invoke settles with { data, error } or rejects, then
\* the error branch, setResult(data) or the catch block, then finally, and the
\* view is rendered again.
InvokeSettles(settled) ==
  /\ ~crashed
  /\ inflight # <<>>
  /\ inflight' = Tail(inflight)
  /\ loading' = FALSE
  /\ IF IsThrow(settled)
     THEN notified' = "Something went wrong with AI search." /\ result' = result
     ELSE IF Truthy(settled.error)
     THEN notified' = ErrorToast(OptGet(settled.error, "status")) /\ result' = result
     ELSE notified' = notified /\ result' = settled.data
  /\ crashed' = RenderThrows(result')
  /\ UNCHANGED <<prompt, triggered>>

\* A click on the X of the panel: setResult(null)
Dismiss ==
  /\ PanelDisplayed
  /\ result' = Null
  /\ UNCHANGED <<prompt, loading, inflight, notified, crashed, triggered>>

\* C28: at most one recommendation request is in flight at any time, a
\* search asked for while loading or on a blank prompt starts none, and
\* while a request is in flight loading is true and result is null, so that
\* no result is displayed.
C28_OneRequestNoResultWhileLoading ==
  /\ Len(inflight) <= 1
  /\ loading <=> inflight # <<>>
  /\ loading => result = Null /\ ~PanelDisplayed
  /\ \A k \in DOMAIN inflight : ~Blank(inflight[k])

\* Enter was pressed on a prompt that is not blank while a request was in
\* flight, and the request in flight is still the only one.
C28_Witness ==
  /\ triggered = "ignored"
  /\ ~Blank(prompt)
  /\ loading
  /\ Len(inflight) = 1

\* The response's ercNumbers is a list that holds the identifier n.
Returned(n) ==
  LET list == Member(result, "ercNumbers")
  IN "array" \in DOMAIN list /\ \E k \in DOMAIN list.array : list.array[k] = Str(n)

\* C22: every request ends in a displayable state: when the call settles,
\* whatever it settles with, loading is false, rendering has not failed, and
\* either the recommendation is displayed or an error message was shown.
C22_EveryOutcomeDisplayable ==
  [][Len(inflight') < Len(inflight)
       => ~loading' /\ ~crashed' /\ (PanelDisplayed' \/ notified' # "")]_searchVars

\* C23: a standard is displayed as recommended only if its identifier is in
\* the response's ercNumbers and in the catalog.
C23_DisplayedOnlyIfReturnedAndListed ==
  \A n \in DisplayedNumbers : n \in Catalog /\ Returned(n)

(***************************************************************************)
(* Specifications.  The components share no state: each specification      *)
(* runs one of them and leaves the others as they are after loading.       *)
(***************************************************************************)

vars ==
  <<compatVars, scanVars, matrixVars, proxyVars, scannerVars, compareVars, searchVars>>

InitCompat == CompatIdle /\ ScanIdle /\ ProxyUnset /\ MatrixIdle /\ ViewIdle /\ CompareIdle /\ SearchIdle

NextCompat == NextLookup /\ UNCHANGED <<scanVars, matrixVars, proxyVars, scannerVars, compareVars, searchVars>>

SpecCompat == InitCompat /\ [][NextCompat]_vars

InitScan == InitScanText /\ CompatIdle /\ ProxyUnset /\ MatrixIdle /\ ViewIdle /\ CompareIdle /\ SearchIdle

NextScan == ScanOnce /\ UNCHANGED <<compatVars, matrixVars, proxyVars, scannerVars, compareVars, searchVars>>

SpecScan == InitScan /\ [][NextScan]_vars

InitCalls == ScanIdle /\ CompatIdle /\ ProxyUnset /\ MatrixIdle /\ ViewIdle /\ CompareIdle /\ SearchIdle

NextCalls == ScanAny /\ UNCHANGED <<compatVars, matrixVars, proxyVars, scannerVars, compareVars, searchVars>>

SpecCalls == InitCalls /\ [][NextCalls]_vars

InitNames == InitNameText /\ CompatIdle /\ ProxyUnset /\ MatrixIdle /\ ViewIdle /\ CompareIdle /\ SearchIdle

SpecNames == InitNames /\ [][NextScan]_vars

InitProxy == InitProxyKey /\ CompatIdle /\ ScanIdle /\ MatrixIdle /\ ViewIdle /\ CompareIdle /\ SearchIdle

NextProxy ==
  \/ \E i \in Invocations, req \in Requests :
       Receive(i, req) /\ UNCHANGED <<compatVars, scanVars, matrixVars, scannerVars, compareVars, searchVars>>
  \/ \E i \in Invocations :
       Handle(i) /\ UNCHANGED <<compatVars, scanVars, matrixVars, scannerVars, compareVars, searchVars>>
  \/ \E i \in Invocations, res \in Replies :
       Settle(i, res) /\ UNCHANGED <<compatVars, scanVars, matrixVars, scannerVars, compareVars, searchVars>>

SpecProxy == InitProxy /\ [][NextProxy]_vars

InitMatrix == InitMatrixProps /\ CompatIdle /\ ScanIdle /\ ProxyUnset /\ ViewIdle /\ CompareIdle /\ SearchIdle

NextMatrix == NextClick /\ UNCHANGED <<compatVars, scanVars, proxyVars, scannerVars, compareVars, searchVars>>

SpecMatrix == InitMatrix /\ [][NextMatrix]_vars

InitView == ViewIdle /\ ScanIdle /\ CompatIdle /\ MatrixIdle /\ ProxyUnset /\ CompareIdle /\ SearchIdle

NextView ==
  \/ ClickScan /\ UNCHANGED <<compatVars, matrixVars, proxyVars, compareVars, searchVars>>
  \/ Timeout /\ UNCHANGED <<compatVars, matrixVars, proxyVars, compareVars, searchVars>>
  \/ \E t \in ViewTexts : Edit(t) /\ UNCHANGED <<compatVars, matrixVars, proxyVars, compareVars, searchVars>>
  \/ handleExample /\ UNCHANGED <<compatVars, matrixVars, proxyVars, compareVars, searchVars>>
  \/ handleReset /\ UNCHANGED <<compatVars, matrixVars, proxyVars, compareVars, searchVars>>

\* The timer of setTimeout fires: a pending callback is run in the end.  The
\* steps that take the first callback off timers are the steps of Timeout.
TimerDue == timers # <<>> /\ timers' = Tail(timers)

SpecView ==
  /\ InitView
  /\ [][NextView]_vars
  /\ WF_timers(TimerDue)

InitCompare ==
  CompareIdle /\ ScanIdle /\ CompatIdle /\ MatrixIdle /\ ProxyUnset /\ ViewIdle /\ SearchIdle

OffCompare == UNCHANGED <<compatVars, scanVars, matrixVars, proxyVars, scannerVars, searchVars>>

NextCompare ==
  \/ \E erc \in Offered : handleCompareToggle(erc) /\ OffCompare
  \/ \E erc \in Offered : handleCompareRemove(erc.number) /\ OffCompare
  \/ Compare /\ OffCompare
  \/ Clear /\ OffCompare
  \/ CloseDrawer /\ OffCompare

SpecCompare == InitCompare /\ [][NextCompare]_vars

InitSearch ==
  SearchIdle /\ ScanIdle /\ CompatIdle /\ MatrixIdle /\ ProxyUnset /\ ViewIdle /\ CompareIdle

OffSearch ==
  UNCHANGED <<compatVars, scanVars, matrixVars, proxyVars, scannerVars, compareVars>>

NextSearch ==
  \/ \E text \in Prompts : SetPrompt(text) /\ OffSearch
  \/ PressEnter /\ OffSearch
  \/ ClickAsk /\ OffSearch
  \/ \E settled \in InvokeResults : InvokeSettles(settled) /\ OffSearch
  \/ Dismiss /\ OffSearch

SpecSearch == InitSearch /\ [][NextSearch]_vars

====
